---- MODULE Spec2Model ----
(***************************************************************************)
(* A model of the UnityPackage extractor (src/src/main.rs): the command    *)
(* line shell (cli, main), extract_package with its temporary directory,   *)
(* the per-entry reconstruction loop and move_file, over a small POSIX     *)
(* file system.  Paths are sequences of one-character strings, so that     *)
(* read_line, trim_end, Path::join, Path::components, PathClean::clean and *)
(* Path::starts_with are computed the way the program computes them.       *)
(***************************************************************************)
EXTENDS Integers, Sequences, FiniteSets, TLC

(***************************************************************************)
(* Bounds of the model.                                                    *)
(***************************************************************************)
\* The most top-level members one archive holds.
MaxEntries == 2

(***************************************************************************)
(* Text: the pathname file's content and the declared pathname.            *)
(***************************************************************************)
SetMin(S) == CHOOSE x \in S : \A y \in S : x <= y

SetMax(S) == CHOOSE x \in S : \A y \in S : y <= x

\* char::is_whitespace, on the characters of the model.
IsWhitespace(c) == c \in {" ", "\t", "\n", "\r"}

\* BufRead::read_line: the bytes up to and including the first line feed, or
\* all of them when there is none.
ReadLine(s) ==
    LET lf == {i \in 1..Len(s) : s[i] = "\n"}
    IN  IF lf = {} THEN s ELSE SubSeq(s, 1, SetMin(lf))

\* str::trim_end: every trailing whitespace character is removed.
TrimEnd(s) ==
    LET keep == {i \in 1..Len(s) : ~IsWhitespace(s[i])}
    IN  IF keep = {} THEN <<>> ELSE SubSeq(s, 1, SetMax(keep))

\* cfg!(windows): the model is of the POSIX build.
Windows == FALSE

\* The characters of the regex [>:"|?*].
WindowsBadChars == {">", ":", "\"", "|", "?", "*"}

\* windows_bad_chars.replace_all(&pathname, "_"), applied on Windows only.
Sanitize(s) ==
    IF Windows
    THEN [i \in 1..Len(s) |-> IF s[i] \in WindowsBadChars THEN "_" ELSE s[i]]
    ELSE s

\* The local `pathname` of the loop body: first line, trimmed, sanitized.
DeclaredPathname(content) == Sanitize(TrimEnd(ReadLine(content)))

(***************************************************************************)
(* Paths: std::path on a POSIX target, and the path_clean crate.           *)
(***************************************************************************)
CurDir == <<".">>

ParentDir == <<".", ".">>

RootDir == <<"/">>

\* The segments of s between its slashes, empty ones included.
RECURSIVE Split(_)
Split(s) ==
    LET sl == {i \in 1..Len(s) : s[i] = "/"}
    IN  IF sl = {} THEN <<s>>
        ELSE <<SubSeq(s, 1, SetMin(sl) - 1)>>
             \o Split(SubSeq(s, SetMin(sl) + 1, Len(s)))

\* Path::components: a leading slash is the root; empty segments and "."
\* segments are dropped, but for a "." that starts a relative path.
\* dirForm records that the text ends in "/" or "/." (or is "."), which the
\* operating system reads as naming a directory.
Components(s) ==
    LET segs == Split(s)
        root == Len(s) > 0 /\ s[1] = "/"
        kept == SelectSeq(segs, LAMBDA g : g # <<>> /\ g # CurDir)
        lead == IF ~root /\ segs[1] = CurDir THEN <<CurDir>> ELSE <<>>
    IN  [root    |-> root,
         comps   |-> lead \o kept,
         dirForm |-> Len(s) > 0 /\ segs[Len(segs)] \in {<<>>, CurDir}]

\* The components with the root as a component of its own, as the iterator
\* of Path::components yields them.
FullComps(p) == (IF p.root THEN <<RootDir>> ELSE <<>>) \o p.comps

\* PathBuf::push / Path::join on texts: an absolute path replaces the base,
\* otherwise a separator is added unless the base is empty or ends in one.
PathJoin(base, p) ==
    IF Len(p) > 0 /\ p[1] = "/" THEN p
    ELSE IF base = <<>> \/ base[Len(base)] = "/" THEN base \o p
    ELSE base \o <<"/">> \o p

\* PathClean::clean, one component at a time: "." is dropped, ".." removes
\* the normal component before it, is dropped right under the root, and is
\* kept at the start of a relative path.
RECURSIVE CleanFold(_, _, _)
CleanFold(root, comps, out) ==
    IF comps = <<>> THEN out
    ELSE LET c == Head(comps)
             rest == Tail(comps)
         IN  IF c = CurDir THEN CleanFold(root, rest, out)
             ELSE IF c = ParentDir
             THEN IF out = <<>>
                  THEN IF root THEN CleanFold(root, rest, out)
                       ELSE CleanFold(root, rest, <<c>>)
                  ELSE IF out[Len(out)] = ParentDir
                       THEN CleanFold(root, rest, out \o <<c>>)
                       ELSE CleanFold(root, rest, SubSeq(out, 1, Len(out) - 1))
             ELSE CleanFold(root, rest, out \o <<c>>)

\* The cleaned path; an empty result is ".".
Clean(p) ==
    LET out == CleanFold(p.root, p.comps, <<>>)
    IN  IF ~p.root /\ out = <<>>
        THEN [root |-> FALSE, comps |-> <<CurDir>>, dirForm |-> FALSE]
        ELSE [root |-> p.root, comps |-> out, dirForm |-> FALSE]

IsPrefix(a, b) == Len(a) <= Len(b) /\ SubSeq(b, 1, Len(a)) = a

\* Path::starts_with: base's components are a prefix of p's.
StartsWith(p, base) == IsPrefix(FullComps(base), FullComps(p))

\* Path::parent: the path without its last component; None (here NoPath)
\* for the root and for the empty path.
NoPath == [none |-> TRUE]

Parent(p) ==
    IF p.comps = <<>> THEN NoPath
    ELSE [root |-> p.root, comps |-> SubSeq(p.comps, 1, Len(p.comps) - 1),
          dirForm |-> FALSE]

(***************************************************************************)
(* The file system outside the temporary directory: a function from the    *)
(* absolute, resolved path of every existing node to the node.             *)
(***************************************************************************)
Dir == [dir |-> TRUE, bytes |-> <<>>]

File(b) == [dir |-> FALSE, bytes |-> b]

\* env::current_dir().
Cwd == <<<<"w">>>>

\* The tree before the run: /, the working directory /w and the existing
\* directory /d.
InitFs == (<<>> :> Dir) @@ (Cwd :> Dir) @@ (<<<<"d">>>> :> Dir)

IsDirAt(fs, at) == at \in DOMAIN fs /\ fs[at].dir

\* Path resolution by the kernel: from `at`, one component at a time; every
\* node passed through must be an existing directory.  ENOENT is
\* "notfound", ENOTDIR is "notdir".
RECURSIVE Walk(_, _, _)
Walk(fs, at, comps) ==
    IF at \notin DOMAIN fs THEN [st |-> "notfound", at |-> at]
    ELSE IF ~fs[at].dir THEN [st |-> "notdir", at |-> at]
    ELSE IF comps = <<>> THEN [st |-> "ok", at |-> at]
    ELSE LET c == Head(comps)
         IN  IF c = CurDir THEN Walk(fs, at, Tail(comps))
             ELSE IF c = ParentDir
             THEN Walk(fs, IF at = <<>> THEN at ELSE SubSeq(at, 1, Len(at) - 1),
                       Tail(comps))
             ELSE Walk(fs, at \o <<c>>, Tail(comps))

StartOf(p) == IF p.root THEN <<>> ELSE Cwd

\* Path::is_dir (a stat that succeeds on a directory).
IsDir(fs, p) == Walk(fs, StartOf(p), p.comps).st = "ok"

\* The text of a resolved absolute path.
RECURSIVE PathText(_)
PathText(at) ==
    IF at = <<>> THEN <<>> ELSE <<"/">> \o Head(at) \o PathText(Tail(at))

\* Path::canonicalize of a directory: its resolved absolute path, or an
\* error when the path does not exist.
Canonicalize(fs, s) ==
    LET p == Components(s)
        w == Walk(fs, StartOf(p), p.comps)
    IN  IF s # <<>> /\ w.st = "ok"
        THEN [ok |-> TRUE, text |-> IF w.at = <<>> THEN <<"/">> ELSE PathText(w.at)]
        ELSE [ok |-> FALSE, text |-> <<>>]

\* mkdir(2): "ok" with the new tree, "notfound" when a directory on the way
\* is missing, "other" for every other error (EEXIST, ENOTDIR).
Mkdir(fs, p) ==
    IF p.comps = <<>> THEN [st |-> "other", fs |-> fs]
    ELSE LET w == Walk(fs, StartOf(p), SubSeq(p.comps, 1, Len(p.comps) - 1))
             last == p.comps[Len(p.comps)]
         IN  IF w.st = "notfound" THEN [st |-> "notfound", fs |-> fs]
             ELSE IF w.st = "notdir" THEN [st |-> "other", fs |-> fs]
             ELSE IF last \in {CurDir, ParentDir} THEN [st |-> "other", fs |-> fs]
             ELSE IF (w.at \o <<last>>) \in DOMAIN fs THEN [st |-> "other", fs |-> fs]
             ELSE [st |-> "ok", fs |-> ((w.at \o <<last>>) :> Dir) @@ fs]

\* fs::create_dir_all: mkdir; on NotFound create the parent first and try
\* again; any other error is fine when the path is a directory already.
RECURSIVE CreateDirAll(_, _)
CreateDirAll(fs, p) ==
    IF p.comps = <<>> /\ ~p.root THEN [ok |-> TRUE, fs |-> fs]
    ELSE LET first == Mkdir(fs, p)
         IN  IF first.st = "ok" THEN [ok |-> TRUE, fs |-> first.fs]
             ELSE IF first.st = "other" THEN [ok |-> IsDir(fs, p), fs |-> fs]
             ELSE IF Parent(p) = NoPath THEN [ok |-> FALSE, fs |-> fs]
             ELSE LET up == CreateDirAll(fs, Parent(p))
                  IN  IF ~up.ok THEN up
                      ELSE LET again == Mkdir(up.fs, p)
                           IN  IF again.st = "ok"
                               THEN [ok |-> TRUE, fs |-> again.fs]
                               ELSE [ok |-> IsDir(up.fs, p), fs |-> up.fs]

\* Where rename(2), or open(2) with O_CREAT|O_TRUNC, puts a regular file
\* named by p: the resolved path, or NoPath when the call fails (a missing
\* or non-directory parent, a name the kernel reads as a directory, an
\* existing directory in the way).
FileTarget(fs, p) ==
    IF p.comps = <<>> THEN NoPath
    ELSE LET w == Walk(fs, StartOf(p), SubSeq(p.comps, 1, Len(p.comps) - 1))
             last == p.comps[Len(p.comps)]
         IN  IF w.st # "ok" \/ last \in {CurDir, ParentDir} \/ p.dirForm
             THEN NoPath
             ELSE IF IsDirAt(fs, w.at \o <<last>>) THEN NoPath
             ELSE [none |-> FALSE, at |-> w.at \o <<last>>]

(***************************************************************************)
(* move_file.                                                              *)
(***************************************************************************)
\* What the environment may do to the fallback of one move: nothing, fail
\* the copy before the destination is opened, fail it after the destination
\* was truncated, or fail the removal of the source.
Faults == {"none", "copy_open", "copy_write", "remove"}

NoFile == [present |-> FALSE, bytes |-> <<>>]

\* move_file with the result of remove_file dropped (`let _ =`): the move
\* reports success while the source is still there.
MoveFileIgnoringRemove(fs, src, dst, xdev, fault) ==
    LET t == FileTarget(fs, dst)
        ok == src.present /\ t # NoPath
              /\ (xdev => fault \notin {"copy_open", "copy_write"})
    IN  [ok |-> ok,
         fs |-> IF ok THEN (t.at :> File(src.bytes)) @@ fs ELSE fs,
         srcGone |-> ok /\ ~(xdev /\ fault = "remove"),
         hit |-> xdev /\ src.present /\ t # NoPath /\ fault # "none",
         ops |-> IF ~xdev /\ ok THEN <<<<"rename", TRUE>>>>
                 ELSE IF ok THEN <<<<"rename", FALSE>>, <<"copy", TRUE>>,
                                   <<"remove_file", fault # "remove">>>>
                 ELSE <<<<"rename", FALSE>>, <<"copy", FALSE>>>>,
         target |-> t, bytes |-> src.bytes]

\* move_file(src, dst): rename, and only when that fails copy and then
\* remove the source; `?` returns the first error of the fallback.  src is
\* the asset ([present, bytes]); xdev says the temporary directory and the
\* destination lie on different file systems, where rename always fails.
\* The result carries the calls made and whether each succeeded (ops),
\* whether the source is gone and
\* whether the environment's fault took effect (hit), with the resolved
\* destination (target) and the source's bytes for reference.
MoveFile(fs, src, dst, xdev, fault) ==
    LET t == FileTarget(fs, dst)
        renamed == ~xdev /\ src.present /\ t # NoPath
        base == [ok |-> FALSE, fs |-> fs, srcGone |-> FALSE, hit |-> FALSE,
                 ops |-> <<>>, target |-> t, bytes |-> src.bytes]
        written == (t.at :> File(src.bytes)) @@ fs
    IN  IF renamed
        THEN [base EXCEPT !.ok = TRUE, !.fs = written, !.srcGone = TRUE,
                          !.ops = <<<<"rename", TRUE>>>>]
        ELSE IF ~src.present \/ t = NoPath
        THEN [base EXCEPT !.ops = <<<<"rename", FALSE>>, <<"copy", FALSE>>>>]
        ELSE IF fault = "copy_open"
        THEN [base EXCEPT !.ops = <<<<"rename", FALSE>>, <<"copy", FALSE>>>>,
                          !.hit = TRUE]
        ELSE IF fault = "copy_write"
        THEN [base EXCEPT !.ops = <<<<"rename", FALSE>>, <<"copy", FALSE>>>>,
                          !.hit = TRUE,
                          !.fs = (t.at :> File(<<>>)) @@ fs]
        ELSE IF fault = "remove"
        THEN [base EXCEPT !.ops = <<<<"rename", FALSE>>, <<"copy", TRUE>>,
                                    <<"remove_file", FALSE>>>>,
                          !.hit = TRUE, !.fs = written]
        ELSE [base EXCEPT !.ops = <<<<"rename", FALSE>>, <<"copy", TRUE>>,
                                    <<"remove_file", TRUE>>>>,
                          !.ok = TRUE, !.srcGone = TRUE, !.fs = written]

\* No call of move_file.
NoMove == [ok |-> FALSE, fs |-> <<>>, srcGone |-> FALSE, hit |-> FALSE,
           ops |-> <<>>, target |-> NoPath, bytes |-> <<>>]

(***************************************************************************)
(* One iteration of the loop of extract_package.                           *)
(***************************************************************************)
\* The guards with the asset's existence left unchecked.
IsAssetEntryWithoutAsset(ent) == ent.dir /\ ent.hasPathname

\* The two `continue` guards at the top of the loop body: the item is a
\* directory and holds both a pathname and an asset.
IsAssetEntry(ent) == ent.dir /\ ent.hasPathname /\ ent.hasAsset

\* The check made on the join as written, without clean().
IsOutsideUncleaned(outAbs, pathname) ==
    ~StartsWith(Components(PathJoin(outAbs, pathname)), Components(outAbs))

\* The security check: the cleaned join of the absolute destination and the
\* pathname does not start with the absolute destination.
IsOutside(outAbs, pathname) ==
    ~StartsWith(Clean(Components(PathJoin(outAbs, pathname))),
                Components(outAbs))

\* The error of an iteration swallowed: the loop goes on.
OnEntryErrorContinue == "loop"

\* What `?` does with the error of a loop iteration: the function returns.
OnEntryError == "error"

\* The loop body for one item of the temporary directory.  out is
\* output_path, outAbs is output_path_abs.  The result: the new tree, the
\* entry's outcome, the pathname it declared (when it was read), the record
\* of the move (when one was made) and the status of the function.
EntryStep(fs, ent, out, outAbs, xdev, fault) ==
    LET skip == [fs |-> fs, outcome |-> "skipped_malformed",
                 declared |-> [read |-> FALSE, text |-> <<>>],
                 move |-> NoMove, status |-> "loop", print |-> "none"]
    IN  IF ~IsAssetEntry(ent) THEN skip
        ELSE IF ~ent.readable
        THEN [skip EXCEPT !.outcome = "failed", !.status = OnEntryError]
        ELSE LET pathname == DeclaredPathname(ent.content)
                 decl == [read |-> TRUE, text |-> pathname]
                 asset_out_path == Components(PathJoin(out, pathname))
             IN  IF IsOutside(outAbs, pathname)
                 THEN [skip EXCEPT !.outcome = "skipped_unsafe",
                                   !.declared = decl, !.print = "WARNING"]
                 ELSE LET parent == Parent(asset_out_path)
                          made == IF parent = NoPath
                                  THEN [ok |-> TRUE, fs |-> fs]
                                  ELSE CreateDirAll(fs, parent)
                      IN  IF ~made.ok
                          THEN [skip EXCEPT !.outcome = "failed",
                                            !.declared = decl,
                                            !.fs = made.fs,
                                            !.print = "Extracting",
                                            !.status = OnEntryError]
                          ELSE LET mv == MoveFile(made.fs,
                                           [present |-> ent.hasAsset,
                                            bytes |-> ent.bytes],
                                           asset_out_path, xdev, fault)
                               IN  [fs |-> mv.fs,
                                    outcome |-> IF mv.ok THEN "extracted"
                                                ELSE "failed",
                                    declared |-> decl,
                                    move |-> mv,
                                    status |-> IF mv.ok THEN "loop"
                                               ELSE OnEntryError,
                                    print |-> "Extracting"]

(***************************************************************************)
(* The inputs of a run.                                                    *)
(***************************************************************************)
\* args[2], the output path: absent (the working directory is used), the
\* existing directory /d, or ./o, which does not exist yet.
NoArg == [given |-> FALSE, text |-> <<>>]

OutputArgs ==
    {NoArg,
     [given |-> TRUE, text |-> <<"/", "d">>],
     [given |-> TRUE, text |-> <<".", "/", "o">>]}

\* What the archive path names: nothing, a file that cannot be opened, a
\* file that is not gzip, a gzip of a truncated tar, a well-formed package.
ArchiveKinds == {"missing", "unopenable", "notgzip", "truncated", "ok"}

\* How the program is called: with a help flag, without arguments, or with
\* an archive path.
ArgKinds == {"help", "noargs", "run"}

\* The contents of the pathname files the archives of the model hold.
PathnameFiles ==
    <<<<"a", "\n">>,
      <<"a", "/", "b", "\n">>,
      <<".", ".", "/", "x", "\n">>,
      <<"a", "/", ".", ".", "/", ".", ".", "/", "x">>,
      <<"/", "x", "\n">>,
      <<".", ".", "\n">>,
      <<"a", "/", ".", ".", "/", "b", "\n">>,
      <<"\n">>,
      <<"a", " ", "\n">>,
      <<"b", "\r", "\n", "a">>>>

\* A top-level member of the archive, as unpacked: a plain file, or a
\* directory with or without a pathname file (of readable text or not) and
\* with or without an asset.  The asset's bytes are filled in per member.
Member(dir, hasPathname, readable, content, hasAsset) ==
    [dir |-> dir, hasPathname |-> hasPathname, readable |-> readable,
     content |-> content, hasAsset |-> hasAsset, bytes |-> <<>>]

\* The kinds of member: a plain file, a directory without pathname, one
\* without asset, one whose pathname is not UTF-8 text, and a well-formed
\* entry for each pathname file.
MemberKinds ==
    <<Member(FALSE, FALSE, FALSE, <<>>, FALSE),
      Member(TRUE, FALSE, FALSE, <<>>, TRUE),
      Member(TRUE, TRUE, TRUE, <<"a", "\n">>, FALSE),
      Member(TRUE, TRUE, FALSE, <<>>, TRUE)>>
    \o [i \in 1..Len(PathnameFiles) |->
            Member(TRUE, TRUE, TRUE, PathnameFiles[i], TRUE)]

\* The trees archive.unpack can leave in the temporary directory: up to
\* MaxEntries members, member i holding the asset bytes <<i>>.  The names
\* of the members are opaque and read_dir yields them in any order, so the
\* members are numbered in the order of their kinds.
Packages ==
    UNION {{[i \in 1..n |-> [MemberKinds[k[i]] EXCEPT
                                !.bytes = IF MemberKinds[k[i]].hasAsset
                                          THEN <<i>> ELSE <<>>]] :
            k \in {c \in [1..n -> 1..Len(MemberKinds)] :
                     \A i \in 1..n, j \in 1..n : i < j => c[i] <= c[j]}} :
           n \in 0..MaxEntries}

(***************************************************************************)
(* The state of a run.                                                     *)
(***************************************************************************)
VARIABLES
    pc,         \* where the program is
    argKind,    \* the command line: help flag, no arguments, or a run
    archive,    \* what the archive path names
    outArg,     \* args[2]
    xdev,       \* the temporary directory is on another file system
    fs,         \* the file system outside the temporary directory
    outAbs,     \* output_path_abs
    tmpExists,  \* the TempDir exists on disk
    tmp,        \* the members in the temporary directory
    unpacked,   \* the members as archive.unpack left them
    remaining,  \* the members read_dir has not yielded yet
    outcome,    \* per member: what the loop did with it
    declared,   \* per member: the pathname the loop read
    stdout,     \* the notices printed: <<kind, member>>
    lastMove,   \* the last iteration's call of move_file
    injected,   \* an environment fault hit the run
    exitCode    \* the process's exit status, once pc is "exited"

vars == <<pc, argKind, archive, outArg, xdev, fs, outAbs, tmpExists, tmp,
          unpacked, remaining, outcome, declared, stdout, lastMove,
          injected, exitCode>>

\* output_path: the argument, or the working directory.
OutputPath == IF outArg.given THEN outArg.text ELSE PathText(Cwd)

\* output_path.canonicalize().unwrap_or(output_path.to_path_buf()).
OutputPathAbs(tree) ==
    LET c == Canonicalize(tree, OutputPath)
    IN  IF c.ok THEN c.text ELSE OutputPath

\* The TempDir kept on disk (its drop skipped).
TempDirLeaked == TRUE

\* Drop of the TempDir when extract_package returns: the directory and
\* everything left in it are removed.
TempDirDropped == FALSE

\* What is kept of a call of move_file by member e's iteration.
MoveRecord(e, mv) ==
    [made |-> mv.ops # <<>>, entry |-> e, ok |-> mv.ok,
     srcGone |-> mv.srcGone, ops |-> mv.ops, target |-> mv.target,
     bytes |-> mv.bytes]

Init ==
    /\ pc = "cli"
    /\ argKind \in ArgKinds
    /\ archive \in ArchiveKinds
    /\ outArg \in OutputArgs
    /\ xdev \in BOOLEAN
    /\ fs = InitFs
    /\ outAbs = <<>>
    /\ tmpExists = FALSE
    /\ tmp = <<>>
    /\ unpacked = <<>>
    /\ remaining = {}
    /\ outcome = <<>>
    /\ declared = <<>>
    /\ stdout = {}
    /\ lastMove = MoveRecord(0, NoMove)
    /\ injected = FALSE
    /\ exitCode = 0

(***************************************************************************)
(* The steps of a run.                                                     *)
(***************************************************************************)
\* cli, up to the call of extract_package: the help flag prints the usage
\* and returns Ok; no argument, or an archive path that does not exist,
\* bails.
Cli ==
    /\ pc = "cli"
    /\ pc' = IF argKind = "help" THEN "cli_ok"
             ELSE IF argKind = "noargs" \/ archive = "missing" THEN "cli_err"
             ELSE "extract"
    /\ UNCHANGED <<argKind, archive, outArg, xdev, fs, outAbs, tmpExists, tmp,
                   unpacked, remaining, outcome, declared, stdout, lastMove,
                   injected, exitCode>>

\* extract_package, before the archive is touched: the destination is made
\* absolute and the temporary directory is created.
ExtractStart ==
    /\ pc = "extract"
    /\ outAbs' = OutputPathAbs(fs)
    /\ tmpExists' = TRUE
    /\ pc' = "unpack"
    /\ UNCHANGED <<argKind, archive, outArg, xdev, fs, tmp, unpacked,
                   remaining, outcome, declared, stdout, lastMove, injected,
                   exitCode>>

\* The result of the unpack ignored.
AfterUnpackIgnoringError(ok) == "loop"

\* Where extract_package goes after File::open and archive.unpack: into the
\* loop when both succeeded, out with the error otherwise.
AfterUnpack(ok) == IF ok THEN "loop" ELSE "error"

\* File::open, GzDecoder, archive.unpack(tmp_path): a file that cannot be
\* opened or is not gzip leaves the temporary directory empty; a truncated
\* tar leaves the members before the cut; a well-formed one all of them.
Unpack ==
    /\ pc = "unpack"
    /\ \E t \in Packages :
          /\ archive \in {"unopenable", "notgzip"} => t = <<>>
          /\ tmp' = t
          /\ unpacked' = t
          /\ outcome' = [i \in DOMAIN t |-> "discovered"]
          /\ declared' = [i \in DOMAIN t |-> [read |-> FALSE, text |-> <<>>]]
          /\ pc' = AfterUnpack(archive = "ok")
          /\ remaining' = IF pc' = "loop" THEN DOMAIN t ELSE {}
    /\ UNCHANGED <<argKind, archive, outArg, xdev, fs, outAbs, tmpExists,
                   stdout, lastMove, injected, exitCode>>

\* One iteration of `for entry in fs::read_dir(tmp_path)`: read_dir yields
\* the members in an order of its own.
ProcessEntry ==
    /\ pc = "loop"
    /\ \E e \in remaining, f \in Faults :
          LET r == EntryStep(fs, tmp[e], OutputPath, outAbs, xdev, f)
          IN  /\ fs' = r.fs
              /\ tmp' = [tmp EXCEPT ![e].hasAsset = @ /\ ~r.move.srcGone]
              /\ remaining' = remaining \ {e}
              /\ outcome' = [outcome EXCEPT ![e] = r.outcome]
              /\ declared' = [declared EXCEPT ![e] = r.declared]
              /\ stdout' = stdout \cup (IF r.print = "none" THEN {}
                                        ELSE {<<r.print, e>>})
              /\ lastMove' = MoveRecord(e, r.move)
              /\ injected' = (injected \/ r.move.hit)
              /\ pc' = r.status
    /\ UNCHANGED <<argKind, archive, outArg, xdev, outAbs, tmpExists,
                   unpacked, exitCode>>

\* The loop is over: extract_package returns Ok(()) and its TempDir is
\* dropped.
LoopEnd ==
    /\ pc = "loop"
    /\ remaining = {}
    /\ tmpExists' = TempDirDropped
    /\ tmp' = IF tmpExists' THEN tmp ELSE <<>>
    /\ pc' = "cli_ok"
    /\ UNCHANGED <<argKind, archive, outArg, xdev, fs, outAbs, unpacked,
                   remaining, outcome, declared, stdout, lastMove, injected,
                   exitCode>>

\* A `?` returned an error from extract_package: its TempDir is dropped on
\* the way out.
ErrorReturn ==
    /\ pc = "error"
    /\ tmpExists' = TempDirDropped
    /\ tmp' = IF tmpExists' THEN tmp ELSE <<>>
    /\ pc' = "cli_err"
    /\ UNCHANGED <<argKind, archive, outArg, xdev, fs, outAbs, unpacked,
                   remaining, outcome, declared, stdout, lastMove, injected,
                   exitCode>>

\* main: an Err of cli is printed and the process exits with 1; otherwise
\* main returns and the process exits with 0.
MainExit ==
    /\ pc \in {"cli_ok", "cli_err"}
    /\ exitCode' = IF pc = "cli_err" THEN 1 ELSE 0
    /\ pc' = "exited"
    /\ UNCHANGED <<argKind, archive, outArg, xdev, fs, outAbs, tmpExists, tmp,
                   unpacked, remaining, outcome, declared, stdout, lastMove,
                   injected>>

Next ==
    \/ Cli
    \/ ExtractStart
    \/ Unpack
    \/ ProcessEntry
    \/ LoopEnd
    \/ ErrorReturn
    \/ MainExit

Spec == Init /\ [][Next]_vars

(***************************************************************************)
(* Notions of the specification, stated apart from the code's own checks.  *)
(***************************************************************************)
Members == DOMAIN unpacked

\* An entry is well-formed when it is a directory holding a pathname file
\* and an asset file.
WellFormed(ent) == ent.dir /\ ent.hasPathname /\ ent.hasAsset

\* The first line of a text without its line ending (LF or CR LF).
FirstLine(s) ==
    LET line == ReadLine(s)
        keep == {i \in 1..Len(line) : line[i] \notin {"\n", "\r"}}
    IN  IF keep = {} THEN <<>> ELSE SubSeq(line, 1, SetMax(keep))

\* The destination root as an absolute, normalized location: the canonical
\* path of an existing directory, or the path under the working directory.
DestRoot ==
    Clean(Components(
        IF Canonicalize(InitFs, OutputPath).ok
        THEN Canonicalize(InitFs, OutputPath).text
        ELSE PathJoin(PathText(Cwd), OutputPath)))

\* The lexical normalization of the destination root joined with P.
Normalized(P) ==
    Clean([root |-> TRUE,
           comps |-> IF Len(P) > 0 /\ P[1] = "/" THEN Components(P).comps
                     ELSE DestRoot.comps \o Components(P).comps,
           dirForm |-> FALSE])

\* The normalization is the destination root or a descendant of it.
Contained(P) == StartsWith(Normalized(P), DestRoot)

\* The regular files of a tree, with their bytes.
FilesOf(tree) ==
    [p \in {q \in DOMAIN tree : ~tree[q].dir} |-> tree[p].bytes]

\* The run was asked to extract a package that unpacked in full.
Extracting == argKind = "run" /\ archive = "ok"

Processed(e) == outcome[e] # "discovered"

\* The node a contained pathname names: the components of its
\* normalization, from the root of the file system.
TargetOf(P) == Normalized(P).comps

\* The loop run over the members in the given order from the tree before
\* the run, with no fault of the environment: the tree, the outcomes and
\* the status it ends with.
RECURSIVE RunInOrder(_, _)
RunInOrder(st, order) ==
    IF order = <<>> \/ st.status # "loop" THEN st
    ELSE LET e == Head(order)
             r == EntryStep(st.fs, unpacked[e], OutputPath, outAbs, xdev,
                            "none")
         IN  RunInOrder([fs |-> r.fs,
                         outcome |-> [st.outcome EXCEPT ![e] = r.outcome],
                         status |-> r.status],
                        Tail(order))

\* The run that takes the members in ascending order.
AscendingRun ==
    RunInOrder([fs |-> InitFs,
                outcome |-> [e \in Members |-> "discovered"],
                status |-> "loop"],
               [i \in 1..Len(unpacked) |-> i])

(***************************************************************************)
(* The claims.                                                             *)
(***************************************************************************)

\* C1 (containment invariant), read for the well-formed entries whose
\* iteration raised no error: the entry is extracted if and only if the
\* lexical normalization of the destination root joined with its declared
\* pathname is the root or a descendant of it.
C1_ExtractedIffContained ==
    \A e \in Members :
        (WellFormed(unpacked[e]) /\ declared[e].read
           /\ outcome[e] \in {"extracted", "skipped_unsafe"})
        => (outcome[e] = "extracted" <=> Contained(declared[e].text))

\* The pathnames of the model that leave the destination: one beginning
\* with ../, one with .. in the middle, an absolute one, one made of
\* traversal segments only.
EscapingPathnames ==
    {<<".", ".", "/", "x">>,
     <<"a", "/", ".", ".", "/", ".", ".", "/", "x">>,
     <<"/", "x">>,
     <<".", ".">>}

\* C2: the iteration that judges an entry unsafe changes neither the file
\* system nor the temporary tree, makes no move, prints a warning naming
\* the entry and leaves the loop running; and the escaping pathnames are
\* judged unsafe.
C2_UnsafeEntryChangesNothing ==
    /\ [][\A e \in Members :
            (outcome[e] = "discovered" /\ outcome'[e] = "skipped_unsafe")
            => /\ fs' = fs
               /\ tmp' = tmp
               /\ ~lastMove'.made
               /\ <<"WARNING", e>> \in stdout'
               /\ pc' = "loop"]_vars
    /\ [](\A e \in Members :
            (declared[e].read /\ declared[e].text \in EscapingPathnames)
            => outcome[e] = "skipped_unsafe")

\* C2's case: an entry whose pathname escapes through a .. in the middle
\* was skipped with a warning, and the loop runs on.
C2_Witness ==
    /\ pc = "loop"
    /\ \E e \in Members :
          /\ outcome[e] = "skipped_unsafe"
          /\ declared[e].text = <<"a", "/", ".", ".", "/", ".", ".", "/", "x">>
          /\ <<"WARNING", e>> \in stdout
          /\ tmp[e].hasAsset

\* C3: the iteration over a member that is not a well-formed entry skips
\* it silently, writes nothing and raises no error; a run that ends with
\* status 0 has extracted every well-formed entry it judged safe; and a run
\* of the loop that ends with status 1 failed on a well-formed entry.
C3_MalformedTolerated ==
    /\ [][\A e \in Members :
            (outcome[e] = "discovered" /\ outcome'[e] # "discovered"
               /\ ~WellFormed(unpacked[e]))
            => /\ outcome'[e] = "skipped_malformed"
               /\ fs' = fs
               /\ tmp' = tmp
               /\ stdout' = stdout
               /\ pc' = "loop"]_vars
    /\ []((pc = "exited" /\ Extracting /\ exitCode = 0)
          => \A e \in Members :
                IF WellFormed(unpacked[e])
                THEN outcome[e] \in {"extracted", "skipped_unsafe"}
                ELSE outcome[e] = "skipped_malformed")
    /\ []((pc = "exited" /\ Extracting /\ exitCode = 1)
          => \E e \in Members :
                WellFormed(unpacked[e]) /\ outcome[e] = "failed")

\* C3's case: a run over a malformed member and a valid entry ended with
\* status 0, the entry extracted.
C3_Witness ==
    /\ pc = "exited"
    /\ exitCode = 0
    /\ \E e \in Members, g \in Members :
          /\ ~unpacked[e].hasAsset
          /\ unpacked[e].dir
          /\ outcome[e] = "skipped_malformed"
          /\ outcome[g] = "extracted"

\* The steps a run can still take, at most.
StepsLeft ==
    IF pc = "cli" THEN MaxEntries + 6
    ELSE IF pc = "extract" THEN MaxEntries + 5
    ELSE IF pc = "unpack" THEN MaxEntries + 4
    ELSE IF pc = "loop" THEN Cardinality(remaining) + 3
    ELSE IF pc = "error" THEN 2
    ELSE IF pc \in {"cli_ok", "cli_err"} THEN 1
    ELSE 0

\* C4: the temporary directory exists only while extract_package runs: it
\* is gone once extract_package has returned, with Ok or with an error, and
\* so when main exits with either status; and every step of a run brings
\* it nearer to its exit.
C4_TempDirRemoved ==
    /\ [](tmpExists => pc \in {"unpack", "loop", "error"})
    /\ [](pc \in {"cli_ok", "cli_err", "exited"} => ~tmpExists)
    /\ [][StepsLeft' < StepsLeft]_vars

\* C4's case: a run that failed on an entry exited with status 1, the
\* temporary directory gone.
C4_Witness ==
    /\ pc = "exited"
    /\ exitCode = 1
    /\ ~tmpExists
    /\ \E e \in Members : outcome[e] = "failed"

\* C5: when the archive cannot be opened, is not gzip or is a truncated
\* tar, the tree stays as it was, the loop is never entered, no member is
\* processed, and the run exits with status 1 and without its temporary
\* directory.
C5_FatalAbort ==
    (argKind = "run" /\ archive # "ok")
    => /\ fs = InitFs
       /\ pc # "loop"
       /\ stdout = {}
       /\ \A e \in Members : outcome[e] = "discovered"
       /\ pc = "exited" => (exitCode = 1 /\ ~tmpExists)

\* C5's case: a truncated tar that had unpacked a member ended the run
\* with status 1.
C5_Witness ==
    /\ archive = "truncated"
    /\ unpacked # <<>>
    /\ pc = "exited"
    /\ exitCode = 1

\* The pathname an archive's builder wrote for member e.
BuiltPathname(e) == FirstLine(unpacked[e].content)

\* An archive built from (pathname, bytes) pairs whose pathnames name
\* distinct files inside the destination.
BuiltInsideTree ==
    \A e \in Members :
        /\ WellFormed(unpacked[e])
        /\ unpacked[e].readable
        /\ Contained(BuiltPathname(e))
        /\ TargetOf(BuiltPathname(e)) # DestRoot.comps
        /\ \A g \in Members :
              g # e => TargetOf(BuiltPathname(g)) # TargetOf(BuiltPathname(e))

\* The files such an archive describes.
BuiltFiles ==
    [q \in {TargetOf(BuiltPathname(e)) : e \in Members} |->
        unpacked[CHOOSE e \in Members : TargetOf(BuiltPathname(e)) = q].bytes]

\* C6 (round trip): a run that ends with status 0 on such an archive leaves
\* exactly the archive's files, with their bytes, and no other file.
C6_RoundTrip ==
    (pc = "exited" /\ Extracting /\ exitCode = 0 /\ BuiltInsideTree)
    => FilesOf(fs) = BuiltFiles

\* C7: the iteration that fails ends the loop with an error and the run
\* with status 1; it keeps every file that was there (only the file at its
\* own destination may have changed) and every earlier outcome; and after
\* the error no member is processed and the tree no longer changes.
C7_FailureAbortsWithoutRollback ==
    /\ [][\A e \in Members :
            (outcome[e] = "discovered" /\ outcome'[e] = "failed")
            => /\ pc' = "error"
               /\ \A q \in DOMAIN fs :
                     /\ q \in DOMAIN fs'
                     /\ fs'[q] # fs[q]
                        => lastMove'.target = [none |-> FALSE, at |-> q]
               /\ \A g \in Members \ {e} : outcome'[g] = outcome[g]]_vars
    /\ [][(pc \in {"error", "cli_err", "exited"})
            => (fs' = fs /\ outcome' = outcome)]_vars
    /\ []((pc = "exited" /\ \E e \in Members : outcome[e] = "failed")
          => exitCode = 1)

\* C7's case: the loop stopped on a failed entry after another entry was
\* extracted, whose file is in place.
C7_Witness ==
    /\ pc = "error"
    /\ \E e \in Members, g \in Members :
          /\ outcome[e] = "failed"
          /\ outcome[g] = "extracted"
          /\ TargetOf(declared[g].text) \in DOMAIN fs
          /\ fs[TargetOf(declared[g].text)] = File(unpacked[g].bytes)

\* C8: move_file calls rename first, copy only after rename failed and
\* remove_file only after copy succeeded; it returns Ok exactly when the
\* rename or both calls of the fallback succeeded; after Ok the destination
\* holds the source's bytes and the source is gone.
C8_MoveFile ==
    lastMove.made
    => LET o == lastMove.ops
       IN  /\ o[1][1] = "rename"
           /\ Len(o) > 1 => (~o[1][2] /\ o[2][1] = "copy")
           /\ Len(o) > 2 => (o[2][2] /\ o[3][1] = "remove_file")
           /\ lastMove.ok
              <=> (o[1][2] \/ (Len(o) = 3 /\ o[2][2] /\ o[3][2]))
           /\ lastMove.ok
              => /\ lastMove.target # NoPath
                 /\ lastMove.target.at \in DOMAIN fs
                 /\ fs[lastMove.target.at] = File(lastMove.bytes)
                 /\ lastMove.srcGone
                 /\ lastMove.entry \in DOMAIN tmp
                    => ~tmp[lastMove.entry].hasAsset

\* C8's case: rename failed and the copy-then-delete fallback moved the
\* asset.
C8_Witness ==
    /\ lastMove.made
    /\ lastMove.ok
    /\ Len(lastMove.ops) = 3
    /\ pc = "loop"

\* C9: the declared pathname is the first line of the pathname file
\* without its line ending, and nothing else of the line is removed.
C9_FirstLineOnly ==
    \A e \in Members :
        declared[e].read => declared[e].text = FirstLine(unpacked[e].content)

\* The path the code resolves for member e, and whether e is an entry the
\* code would judge safe.
CodeTarget(e) ==
    Clean(Components(PathJoin(outAbs, DeclaredPathname(unpacked[e].content))))

JudgedSafe(e) ==
    /\ WellFormed(unpacked[e])
    /\ unpacked[e].readable
    /\ ~IsOutside(outAbs, DeclaredPathname(unpacked[e].content))

DistinctTargets ==
    \A e \in Members, g \in Members :
        (e # g /\ JudgedSafe(e) /\ JudgedSafe(g))
        => CodeTarget(e) # CodeTarget(g)

\* C10 as claimed: whatever the order of enumeration, a run without faults
\* of the environment ends with the outcomes and the tree of the run in
\* ascending order.
C10_OrderIndependent ==
    (pc = "exited" /\ Extracting /\ ~injected)
    => (fs = AscendingRun.fs /\ outcome = AscendingRun.outcome)

\* C10 amended: without faults of the environment, whether the run succeeds
\* does not depend on the order; the skip decisions made are those of the
\* ascending run; and a successful run over entries with distinct output
\* paths ends with the outcomes and the tree of the ascending run.
C10_OrderIndependentWhenDistinct ==
    (pc = "exited" /\ Extracting /\ ~injected)
    => /\ exitCode = 0 <=> AscendingRun.status = "loop"
       /\ \A e \in Members :
             (Processed(e) /\ AscendingRun.outcome[e] # "discovered")
             => /\ outcome[e] = "skipped_malformed"
                   <=> AscendingRun.outcome[e] = "skipped_malformed"
                /\ outcome[e] = "skipped_unsafe"
                   <=> AscendingRun.outcome[e] = "skipped_unsafe"
       /\ (exitCode = 0 /\ DistinctTargets)
          => (fs = AscendingRun.fs /\ outcome = AscendingRun.outcome)

\* C10's case: a successful run that moved member 1 last, after it had
\* extracted member 2.
C10_Witness ==
    /\ pc = "exited"
    /\ exitCode = 0
    /\ ~injected
    /\ DistinctTargets
    /\ lastMove.made
    /\ lastMove.entry = 1
    /\ Len(unpacked) = 2
    /\ outcome[2] = "extracted"

====
